---- MODULE Spec2Model ----
(***************************************************************************)
(* Model of the Afghanistan market-intelligence pipeline:                  *)
(*   src/indicators.py      the indicator calculations                     *)
(*   src/comtrade_client.py the extraction of tables from the API response *)
(*   src/main.py            the per-product analysis loop                  *)
(*                                                                         *)
(* Tables (pandas DataFrames) are sequences of records, one per row.       *)
(* Floating-point results are exact rationals <<n, d>> (d > 0, reduced);   *)
(* Python's None is the empty tuple.                                       *)
(***************************************************************************)
EXTENDS Integers, Sequences, FiniteSets, TLC

VARIABLES
    \* main.py
    pc,                   \* the position of main
    idx,                  \* the index in PRODUCTS of the product in analysis
    exports_response,     \* the last response of the export query, <<>> before it
    unified_queries,      \* the unified queries issued since the last export query
    all_results,          \* main's all_results
    outputs,              \* TRUE once the CSV and JSON outputs are generated
    product_exports,      \* analyze_product's df_exports, the aggregated exports
    unified_global_data,  \* analyze_product's unified import table
    top_markets,          \* analyze_product's top_markets
    market_analyses,      \* analyze_product's market_analyses
    \* one call of an indicator function
    fn, args, ret, upc

pipeline == <<pc, idx, exports_response, unified_queries, all_results, outputs, product_exports,
              unified_global_data, top_markets, market_analyses>>

call == <<fn, args, ret, upc>>

vars == <<pipeline, call>>

-----------------------------------------------------------------------------
(* Values *)

NULL == <<>>

Abs(x) == IF x < 0 THEN -x ELSE x

RECURSIVE GCD(_, _)
GCD(a, b) == IF b = 0 THEN a ELSE GCD(b, a % b)

\* the float n / d, d # 0
Rat(n, d) ==
    LET s == IF d < 0 THEN -1 ELSE 1
        g == GCD(Abs(n), Abs(d))
    IN  <<(s * n) \div g, (s * d) \div g>>

Num(x) == Rat(x, 1)

IsNull(x) == x = NULL

RLess(x, y) == x[1] * y[2] < y[1] * x[2]

RLeq(x, y) == x[1] * y[2] <= y[1] * x[2]

RAdd(x, y) == Rat(x[1] * y[2] + y[1] * x[2], x[2] * y[2])

RSub(x, y) == Rat(x[1] * y[2] - y[1] * x[2], x[2] * y[2])

RMul(x, y) == Rat(x[1] * y[1], x[2] * y[2])

\* x / y, y # 0
RDiv(x, y) == Rat(x[1] * y[2], x[2] * y[1])

-----------------------------------------------------------------------------
(* Table helpers *)

RECURSIVE SumTo(_, _)
SumTo(f, n) == IF n = 0 THEN 0 ELSE f[n] + SumTo(f, n - 1)

\* Series.sum() of a column of integers
SumSeq(f) == SumTo(f, Len(f))

Column(df, c) == [i \in 1..Len(df) |-> df[i][c]]

SetMin(S) == CHOOSE x \in S : \A y \in S : x <= y

SetMax(S) == CHOOSE x \in S : \A y \in S : x >= y

RECURSIVE SortedSeq(_)
SortedSeq(S) == IF S = {} THEN <<>>
                ELSE LET m == SetMin(S) IN <<m>> \o SortedSeq(S \ {m})

Range(s) == {s[i] : i \in 1..Len(s)}

\* all sequences over S of length at most n
SeqsUpTo(S, n) == UNION {[1..k -> S] : k \in 0..n}

-----------------------------------------------------------------------------
(* config.py *)

YEARS == <<2021, 2022, 2023, 2024>>

TOP_N_MARKETS == 10

-----------------------------------------------------------------------------
(* pandas: groupby and sort_values *)

\* the country codes of the model in the order pandas sorts the strings
CodeOrder == <<"0", "156", "356", "4", "842">>

\* the distinct values of a key column, in sorted order
sorted_keys(df, c) == SelectSeq(CodeOrder, LAMBDA k : k \in Range(Column(df, c)))

\* the groups reduced to their last record instead of their sum
groupby_last(df, key, val) ==
    LET ks == sorted_keys(df, key)
    IN  [k \in 1..Len(ks) |->
            [partner     |-> ks[k],
             trade_value |->
                LET g == SelectSeq(df, LAMBDA r : r[key] = ks[k])
                IN  g[Len(g)][val]]]

\* df.groupby(key)[val].sum().reset_index() with the columns named
\* partner and trade_value
groupby_sum(df, key, val) ==
    LET ks == sorted_keys(df, key)
    IN  [k \in 1..Len(ks) |->
            [partner     |-> ks[k],
             trade_value |->
                SumSeq(Column(SelectSeq(df, LAMBDA r : r[key] = ks[k]), val))]]

IndexPermutations(n) == {f \in [1..n -> 1..n] : \A i, j \in 1..n : i # j => f[i] # f[j]}

\* df.sort_values(c, ascending=False): the default kind is quicksort, which
\* is not stable, so any descending arrangement of the rows can come out
sort_values_desc(df, c) ==
    {[i \in 1..Len(df) |-> df[f[i]]] :
        f \in {g \in IndexPermutations(Len(df)) :
                 \A i \in 1..(Len(df) - 1) : df[g[i]][c] >= df[g[i + 1]][c]}}

\* df['rank'] = range(1, len(df) + 1)
positional_rank(df) ==
    [i \in 1..Len(df) |->
        [partner |-> df[i].partner, trade_value |-> df[i].trade_value, rank |-> i]]

head(df, n) == SubSeq(df, 1, IF n < Len(df) THEN n ELSE Len(df))

\* the possible results of groupby-sum, sort descending, rank, head(top_n)
ranked_totals(df, key, val, top_n) ==
    {head(positional_rank(t), top_n) : t \in sort_values_desc(groupby_sum(df, key, val),
                                                              "trade_value")}

-----------------------------------------------------------------------------
(* comtrade_client.py: the tables extracted from the unified response *)
(* A unified row has reporterCode (the importing market), partnerCode (the *)
(* supplier, "0" for the World aggregate), year, primaryValue and qty.     *)

WORLD == "0"

\* afghanistan_code, the Comtrade partner code of the subject
afghanistan_code == "4"

InYears(y, years) == y \in Range(years)

\* 'c' in df.columns, for a table with at least one row
HasColumn(df, c) == c \in DOMAIN df[1]

\* unified_data[unified_data['partnerCode'] == '0']
world_rows(unified_data) == SelectSeq(unified_data, LAMBDA r : r.partnerCode = WORLD)

\* the supplier extraction without the partnerCode != '0' test
supplier_rows_unfiltered(unified_data, partner_codes) ==
    SelectSeq(unified_data, LAMBDA r : r.reporterCode \in Range(partner_codes))

\* unified_data[(partnerCode != '0') & reporterCode.isin(partner_codes)]
supplier_rows(unified_data, partner_codes) ==
    SelectSeq(unified_data, LAMBDA r : /\ r.partnerCode # WORLD
                                       /\ r.reporterCode \in Range(partner_codes))

RECURSIVE Flatten(_)
Flatten(ss) == IF ss = <<>> THEN <<>> ELSE Head(ss) \o Flatten(Tail(ss))

\* one row per requested market and requested year that has World rows
fetch_market_imports_batch(partner_codes, hs_code, years, unified_data) ==
    LET world_totals == SelectSeq(world_rows(unified_data),
                                  LAMBDA r : r.reporterCode \in Range(partner_codes))
        cell(m, y)   == LET year_data == SelectSeq(world_totals,
                                LAMBDA r : r.reporterCode = m /\ r.year = y)
                        IN  IF year_data = <<>> THEN <<>>
                            ELSE <<[year |-> y, partner_code |-> m,
                                    total_import_value |->
                                        SumSeq(Column(year_data, "primaryValue"))]>>
    IN  IF partner_codes = <<>> THEN <<>>
        ELSE IF unified_data = <<>> THEN <<>>
        ELSE IF world_totals = <<>> THEN <<>>
        ELSE Flatten([i \in 1..Len(partner_codes) |->
                Flatten([j \in 1..Len(years) |-> cell(partner_codes[i], years[j])])])

\* the supplier breakdown of the requested markets and years
fetch_market_imports_by_partner_batch(partner_codes, hs_code, years, unified_data) ==
    LET supplier_data == supplier_rows(unified_data, partner_codes)
        row(r) == [year           |-> r.year,
                   partner_code   |-> r.reporterCode,
                   supplier       |-> IF HasColumn(supplier_data, "partnerDesc")
                                      THEN r.partnerDesc ELSE r.partnerCode,
                   trade_value    |-> r.primaryValue,
                   trade_quantity |-> IF HasColumn(supplier_data, "qty") THEN r.qty
                                      ELSE IF HasColumn(supplier_data, "netWgt")
                                           THEN r.netWgt
                                           ELSE NULL]
    IN  IF partner_codes = <<>> THEN <<>>
        ELSE IF unified_data = <<>> THEN <<>>
        ELSE IF supplier_data = <<>> THEN <<>>
        ELSE SelectSeq([i \in 1..Len(supplier_data) |-> row(supplier_data[i])],
                       LAMBDA x : /\ x.partner_code \in Range(partner_codes)
                                  /\ InYears(x.year, years))

\* groupby(['reporterCode', 'year'])['primaryValue'].sum() of the World rows,
\* filtered to the requested years, dense rank per year, sorted by year, rank
fetch_global_imports(hs_code, years, unified_data) ==
    LET world_totals == world_rows(unified_data)
        ys           == SortedSeq({world_totals[i].year : i \in 1..Len(world_totals)}
                                  \cap Range(years))
        value(m, y)  == SumSeq(Column(SelectSeq(world_totals,
                                  LAMBDA r : r.reporterCode = m /\ r.year = y),
                                  "primaryValue"))
        of_year(y)   == LET w  == SelectSeq(world_totals, LAMBDA r : r.year = y)
                            ms == sorted_keys(w, "reporterCode")
                        IN  [k \in 1..Len(ms) |->
                                [partner |-> ms[k], trade_value |-> value(ms[k], y),
                                 year |-> y]]
        dense(t, i)  == 1 + Cardinality({t[j].trade_value : j \in
                                {k \in 1..Len(t) : t[k].trade_value > t[i].trade_value}})
        \* sort_values(['year', 'rank']) is a stable lexsort
        by_rank(t)   == LET RECURSIVE Take(_)
                            Take(r) == IF r > Len(t) THEN <<>>
                                       ELSE SelectSeq([i \in 1..Len(t) |->
                                                [partner |-> t[i].partner,
                                                 trade_value |-> t[i].trade_value,
                                                 year |-> t[i].year,
                                                 rank |-> dense(t, i)]],
                                              LAMBDA x : x.rank = r) \o Take(r + 1)
                        IN  Take(1)
        RECURSIVE Years(_)
        Years(k)     == IF k > Len(ys) THEN <<>>
                        ELSE by_rank(of_year(ys[k])) \o Years(k + 1)
    IN  IF unified_data = <<>> THEN <<>>
        ELSE IF world_totals = <<>> THEN <<>>
        ELSE Years(1)

-----------------------------------------------------------------------------
(* indicators.py: the Market Identifier *)

identify_top_global_import_markets(hs_code, years, top_n, unified_data) ==
    LET global_imports == fetch_global_imports(hs_code, years, unified_data)
    IN  IF global_imports = <<>> THEN {<<>>}
        ELSE LET latest_year == SetMax(Range(Column(global_imports, "year")))
                 df == SelectSeq(global_imports, LAMBDA r : r.year = latest_year)
             IN  ranked_totals(df, "partner", "trade_value", top_n)

identify_top_markets(df_exports, top_n, year) ==
    IF df_exports = <<>> THEN {<<>>}
    ELSE LET y  == IF year # NULL THEN year[1]
                   ELSE SetMax(Range(Column(df_exports, "year")))
             df == SelectSeq(df_exports, LAMBDA r : r.year = y)
         IN  IF df = <<>> THEN {<<>>}
             ELSE ranked_totals(df, "partner", "trade_value", top_n)

-----------------------------------------------------------------------------
(* indicators.py: calculate_growth_rate *)

NoGrowth == [yoy_growth |-> NULL, cagr |-> NULL,
             absolute_growth |-> NULL, growth_percentage |-> NULL]

\* yearly_totals without the groupby: one entry per record, ordered by year
yearly_totals_ungrouped(market_data) ==
    LET ys == SortedSeq({market_data[i].year : i \in 1..Len(market_data)})
        RECURSIVE Cat(_)
        Cat(k) == IF k = 0 THEN <<>>
                  ELSE Cat(k - 1) \o SelectSeq(market_data, LAMBDA r : r.year = ys[k])
    IN  [i \in 1..Len(market_data) |->
            [year |-> Cat(Len(ys))[i].year,
             trade_value |-> Cat(Len(ys))[i].trade_value]]

\* groupby('year')['trade_value'].sum().reset_index().sort_values('year')
yearly_totals(market_data) ==
    LET ys == SortedSeq({market_data[i].year : i \in 1..Len(market_data)})
    IN  [k \in 1..Len(ys) |->
            [year |-> ys[k],
             trade_value |->
                SumSeq(Column(SelectSeq(market_data, LAMBDA r : r.year = ys[k]),
                              "trade_value"))]]

\* the change taken relative to the last value instead of the previous one
yoy_growth_of_last(last_value, prev_value) ==
    IF prev_value > 0 /\ last_value > 0
    THEN Rat((last_value - prev_value) * 100, last_value)
    ELSE NULL

yoy_growth(last_value, prev_value) ==
    IF prev_value > 0 THEN Rat((last_value - prev_value) * 100, prev_value)
    ELSE NULL

\* ((last / first) ** (1 / n_years) - 1) * 100: exact when n_years = 1,
\* otherwise the symbolic root <<n, d, n_years>> of the ratio n / d
cagr_value(first_value, last_value, n_years) ==
    IF n_years = 1 THEN Rat((last_value - first_value) * 100, first_value)
    ELSE Rat(last_value, first_value) \o <<n_years>>

\* cagr without the first_value > 0 test: the float division by zero gives inf
cagr_unguarded(first_year, last_year, first_value, last_value) ==
    LET n_years == last_year - first_year
    IN  IF n_years > 0
        THEN IF first_value > 0
             THEN cagr_value(first_value, last_value, n_years)
             ELSE <<1, 0, n_years>>
        ELSE NULL

cagr(first_year, last_year, first_value, last_value) ==
    LET n_years == last_year - first_year
    IN  IF n_years > 0 /\ first_value > 0
        THEN cagr_value(first_value, last_value, n_years)
        ELSE NULL

\* growth_percentage with 0 in place of None
growth_percentage_or_zero(first_value, last_value) ==
    IF first_value > 0 THEN Rat((last_value - first_value) * 100, first_value)
    ELSE Num(0)

growth_percentage(first_value, last_value) ==
    IF first_value > 0 THEN Rat((last_value - first_value) * 100, first_value)
    ELSE NULL

\* the total of the calendar year before the last one, 0 without records
previous_calendar_year_value(yearly_totals_, last_year) ==
    SumSeq(Column(SelectSeq(yearly_totals_, LAMBDA r : r.year = last_year - 1),
                  "trade_value"))

\* yearly_totals.iloc[-2]['trade_value'], for at least two yearly totals
previous_value(yearly_totals_, last_year) ==
    yearly_totals_[Len(yearly_totals_) - 1].trade_value

calculate_growth_rate(df_exports, market_code, years) ==
    LET market_data == SelectSeq(df_exports, LAMBDA r : r.partner = market_code)
        yt          == yearly_totals(market_data)
    IN  IF market_data = <<>> THEN NoGrowth
        ELSE IF Len(yt) < 2 THEN NoGrowth
        ELSE LET first_year  == yt[1].year
                 last_year   == yt[Len(yt)].year
                 first_value == yt[1].trade_value
                 last_value  == yt[Len(yt)].trade_value
                 prev_value  == previous_value(yt, last_year)
             IN  [yoy_growth        |-> yoy_growth(last_value, prev_value),
                  cagr              |-> cagr(first_year, last_year,
                                             first_value, last_value),
                  absolute_growth   |-> Num(last_value - first_value),
                  growth_percentage |-> growth_percentage(first_value, last_value),
                  first_year        |-> first_year,
                  last_year         |-> last_year,
                  first_value       |-> first_value,
                  last_value        |-> last_value]

-----------------------------------------------------------------------------
(* indicators.py: calculate_market_share *)
(* An optional year argument is <<>> (None) or <<y>>.                      *)

\* market_imports[market_imports['year'] == y]['total_import_value'].sum()
total_value_of(market_imports, y) ==
    SumSeq(Column(SelectSeq(market_imports, LAMBDA r : r.year = y),
                  "total_import_value"))

\* afg_to_market[afg_to_market['year'] == y]['trade_value'].sum()
afg_value_of(afg_to_market, y) ==
    SumSeq(Column(SelectSeq(afg_to_market, LAMBDA r : r.year = y), "trade_value"))

\* the year both sums are taken over
share_year(afg_to_market, market_imports, year) ==
    IF year # NULL THEN year[1]
    ELSE LET a == SetMax({afg_to_market[i].year : i \in 1..Len(afg_to_market)})
             m == SetMax({market_imports[i].year : i \in 1..Len(market_imports)})
         IN  IF a < m THEN a ELSE m

calculate_market_share(afg_exports, total_imports, market_code, year) ==
    LET afg_to_market  == SelectSeq(afg_exports, LAMBDA r : r.partner = market_code)
        market_imports == SelectSeq(total_imports,
                                    LAMBDA r : r.partner_code = market_code)
    IN  IF afg_to_market = <<>> THEN Num(0)
        ELSE IF market_imports = <<>> THEN Num(0)
        ELSE LET y           == share_year(afg_to_market, market_imports, year)
                 afg_value   == afg_value_of(afg_to_market, y)
                 total_value == total_value_of(market_imports, y)
             IN  IF total_value > 0 THEN Rat(afg_value * 100, total_value)
                 ELSE Num(0)

-----------------------------------------------------------------------------
(* indicators.py: compare_to_competitors_in_market *)
(* A quantity cell is <<q>>, or <<>> when it is NaN; a missing label is    *)
(* the string "None".                                                      *)

NoLabel == "None"

NoComparison == [market_avg_price |-> NULL, afg_vs_market_pct |-> NULL,
                 competitiveness |-> NoLabel]

\* the unit_price column with its NaN cells dropped
valid_prices(competitor_data) ==
    LET priced == SelectSeq(competitor_data,
                            LAMBDA r : r.trade_quantity # NULL
                                       /\ r.trade_quantity[1] > 0)
    IN  [i \in 1..Len(priced) |->
            Rat(priced[i].trade_value, priced[i].trade_quantity[1])]

RECURSIVE RSumTo(_, _)
RSumTo(f, n) == IF n = 0 THEN Num(0) ELSE RAdd(f[n], RSumTo(f, n - 1))

\* Series.mean() of a non-empty column of floats
mean(prices) == RDiv(RSumTo(prices, Len(prices)), Num(Len(prices)))

\* the deviation taken relative to the subject's own price
price_diff_pct_of_subject(afg_unit_price, market_avg_price) ==
    RMul(RDiv(RSub(afg_unit_price, market_avg_price), afg_unit_price), Num(100))

price_diff_pct(afg_unit_price, market_avg_price) ==
    RMul(RDiv(RSub(afg_unit_price, market_avg_price), market_avg_price), Num(100))

competitiveness(pct) ==
    IF RLess(pct, Num(-10)) THEN "Highly Competitive"
    ELSE IF RLess(pct, Num(0)) THEN "Competitive"
    ELSE IF RLess(pct, Num(10)) THEN "Average"
    ELSE "Above Market"

compare_to_competitors_in_market(afg_unit_price, competitor_data, market_code) ==
    IF afg_unit_price = NULL \/ competitor_data = <<>> THEN NoComparison
    ELSE LET prices == valid_prices(competitor_data)
         IN  IF prices = <<>> THEN NoComparison
             ELSE LET market_avg_price == mean(prices)
                  IN  IF RLess(Num(0), market_avg_price)
                      THEN [market_avg_price  |-> market_avg_price,
                            afg_vs_market_pct |->
                                price_diff_pct(afg_unit_price, market_avg_price),
                            competitiveness   |->
                                competitiveness(price_diff_pct(afg_unit_price,
                                                               market_avg_price))]
                      ELSE [market_avg_price  |-> market_avg_price,
                            afg_vs_market_pct |-> NULL,
                            competitiveness   |-> NoLabel]

-----------------------------------------------------------------------------
(* indicators.py: compare_to_global_average *)

NoGlobalComparison == [global_avg_price |-> NULL, price_difference |-> NULL,
                       price_difference_pct |-> NULL, competitiveness |-> NoLabel]

\* abs(x) of a float
RAbs(x) == IF x[1] < 0 THEN Rat(-x[1], x[2]) ELSE x

\* the labels without the tolerance of 0.01
global_competitiveness_exact(price_difference) ==
    IF price_difference = Num(0) THEN "Equal"
    ELSE IF RLess(Num(0), price_difference) THEN "Above"
    ELSE "Below"

global_competitiveness(price_difference) ==
    IF RLess(RAbs(price_difference), Rat(1, 100)) THEN "Equal"
    ELSE IF RLess(Num(0), price_difference) THEN "Above"
    ELSE "Below"

\* global_prices has the columns year, trade_value, trade_quantity and at
\* least one row
compare_to_global_average(afg_unit_price, global_prices, year) ==
    IF afg_unit_price = NULL THEN NoGlobalComparison
    ELSE LET y == IF year # NULL THEN year[1]
                  ELSE SetMax(Range(Column(global_prices, "year")))
             global_data    == SelectSeq(global_prices, LAMBDA r : r.year = y)
             total_value    == SumSeq(Column(global_data, "trade_value"))
             total_quantity == SumSeq(Column(global_data, "trade_quantity"))
         IN  IF global_data = <<>> THEN NoGlobalComparison
             ELSE IF total_quantity > 0
             THEN LET global_avg_price == Rat(total_value, total_quantity)
                      price_difference == RSub(afg_unit_price, global_avg_price)
                  IN  [global_avg_price     |-> global_avg_price,
                       price_difference     |-> price_difference,
                       price_difference_pct |->
                           IF RLess(Num(0), global_avg_price)
                           THEN RMul(RDiv(price_difference, global_avg_price),
                                     Num(100))
                           ELSE NULL,
                       competitiveness      |->
                           global_competitiveness(price_difference)]
             ELSE NoGlobalComparison

-----------------------------------------------------------------------------
(* indicators.py: get_market_rank, get_competitor_shares, unit price *)

AFGHANISTAN_CODE == "AFG"

\* the rows of every year
rows_of_any_year(df, year) == df

\* the rows of one year, the latest one when year is None
rows_of_year(df, year) ==
    IF year # NULL THEN SelectSeq(df, LAMBDA r : r.year = year[1])
    ELSE IF df = <<>> THEN <<>>
    ELSE SelectSeq(df, LAMBDA r : r.year = SetMax(Range(Column(df, "year"))))

\* market_suppliers.sort_values('import_value') raises KeyError for a table
\* without that column; it is reached when the table has rows of the year
get_market_rank_raises(all_suppliers, year) ==
    /\ rows_of_year(all_suppliers, year) # <<>>
    /\ ~HasColumn(all_suppliers, "import_value")

\* the possible values, at the return of a call that does not raise, of the
\* locals afg_rank (<<>> for None, <<rank>> otherwise) and market_suppliers
\* (the sorted table with its rank column)
get_market_rank_locals(afg_exports, all_suppliers, market_code, year) ==
    LET market_suppliers == rows_of_year(all_suppliers, year)
        afg_to_market    == SelectSeq(afg_exports, LAMBDA r : r.partner = market_code)
        afg_value        == SumSeq(Column(rows_of_year(afg_to_market, year),
                                          "trade_value"))
        rank_in(sorted)  ==
            LET below == {i \in 1..Len(sorted) : sorted[i].import_value <= afg_value}
                listed == {i \in 1..Len(sorted) :
                              sorted[i].supplier = AFGHANISTAN_CODE}
            IN  IF below # {} THEN <<SetMin(below)>>
                ELSE IF afg_value > 0
                     THEN IF listed # {} THEN <<SetMin(listed)>>
                          ELSE <<1 + Cardinality({i \in 1..Len(sorted) :
                                        sorted[i].import_value > afg_value})>>
                     ELSE NULL
        ranked(sorted)   ==
            [i \in 1..Len(sorted) |->
                [year |-> sorted[i].year, supplier |-> sorted[i].supplier,
                 import_value |-> sorted[i].import_value, rank |-> i]]
    IN  IF market_suppliers = <<>>
        THEN {[afg_rank |-> NULL, market_suppliers |-> <<>>]}
        ELSE {[afg_rank |-> rank_in(t), market_suppliers |-> ranked(t)] :
                 t \in sort_values_desc(market_suppliers, "import_value")}

\* the possible results of a call that does not raise
get_market_rank(afg_exports, all_suppliers, market_code, year) ==
    {x.afg_rank : x \in get_market_rank_locals(afg_exports, all_suppliers,
                                               market_code, year)}

\* the shares taken relative to the total of the returned top_n rows
get_competitor_shares_of_top_n(all_suppliers, market_code, top_n, year) ==
    LET market_data == rows_of_year(all_suppliers, year)
        shared(t)   ==
            LET total == SumSeq(Column(head(t, top_n), "trade_value"))
            IN  [i \in 1..Len(t) |->
                    [supplier     |-> t[i].supplier,
                     trade_value  |-> t[i].trade_value,
                     market_share |-> IF total > 0
                                      THEN Rat(t[i].trade_value * 100, total)
                                      ELSE Num(0),
                     rank         |-> i]]
    IN  IF market_data = <<>> THEN {<<>>}
        ELSE {head(shared(t), top_n) : t \in sort_values_desc(market_data,
                                                              "trade_value")}

\* the possible tables of the top_n suppliers of one year with their shares
get_competitor_shares(all_suppliers, market_code, top_n, year) ==
    LET market_data   == rows_of_year(all_suppliers, year)
        total_imports == SumSeq(Column(market_data, "trade_value"))
        shared(t)     == [i \in 1..Len(t) |->
                            [supplier     |-> t[i].supplier,
                             trade_value  |-> t[i].trade_value,
                             market_share |-> IF total_imports > 0
                                              THEN Rat(t[i].trade_value * 100,
                                                       total_imports)
                                              ELSE Num(0),
                             rank         |-> i]]
    IN  IF market_data = <<>> THEN {<<>>}
        ELSE {head(shared(t), top_n) : t \in sort_values_desc(market_data,
                                                              "trade_value")}

\* the unit price over the rows of the partner in every year
calculate_unit_price_all_years(df_exports, partner, year) ==
    LET df == IF partner # NULL
              THEN SelectSeq(df_exports, LAMBDA r : r.partner = partner[1])
              ELSE df_exports
    IN  IF df = <<>> THEN NULL
        ELSE IF ~HasColumn(df, "trade_quantity") THEN NULL
        ELSE IF SumSeq(Column(df, "trade_quantity")) > 0
             THEN Rat(SumSeq(Column(df, "trade_value")),
                      SumSeq(Column(df, "trade_quantity")))
        ELSE NULL

\* sum(trade_value) / sum(trade_quantity) of the rows of a partner and year;
\* the optional partner is <<>> (None) or <<p>>
calculate_unit_price(df_exports, partner, year) ==
    LET of_partner == IF partner # NULL
                      THEN SelectSeq(df_exports, LAMBDA r : r.partner = partner[1])
                      ELSE df_exports
        df == rows_of_year(of_partner, year)
        total_value    == SumSeq(Column(df, "trade_value"))
        total_quantity == SumSeq(Column(df, "trade_quantity"))
    IN  IF df = <<>> THEN NULL
        ELSE IF ~HasColumn(df, "trade_quantity") THEN NULL
        ELSE IF total_quantity > 0 THEN Rat(total_value, total_quantity)
        ELSE NULL

EmptyCompetitorComparison ==
    [competitor_prices |-> <<>>, afg_rank |-> NULL, avg_competitor_price |-> NULL]

\* compare_to_competitors for the tables analyze_product passes, which have
\* no import_quantity column
compare_to_competitors(afg_unit_price, competitor_prices, top_n) ==
    EmptyCompetitorComparison

-----------------------------------------------------------------------------
(* comtrade_client.py: the two API fetches *)
(* A response is [outcome |-> "raises" | "None" | "table" | "list",        *)
(* rows |-> ...]: the call raised, returned None, a DataFrame or a list of *)
(* records.  A cell of the mirror-data response is a Python object: an     *)
(* int, a str or NaN.                                                      *)

py_int(n) == [kind |-> "int", num |-> n]

py_str(t) == [kind |-> "str", text |-> t]

NaN == [kind |-> "nan"]

\* Series.astype(str) of the numeric country codes of the API
astype_str(code) ==
    CASE code = 0 -> "0"
      [] code = 4 -> "4"
      [] code = 156 -> "156"
      [] code = 356 -> "356"
      [] code = 842 -> "842"

\* the numerals among the strings of the model
Numerals == {"2023", "2024", "20", "356"}

\* float(text) of a numeral
numeric_text(t) ==
    CASE t = "2023" -> 2023
      [] t = "2024" -> 2024
      [] t = "20" -> 20
      [] t = "356" -> 356

\* pd.to_numeric(cell, errors='coerce'): <<x>>, or <<>> for NaN
to_numeric(cell) ==
    CASE cell.kind = "int" -> <<cell.num>>
      [] cell.kind = "str" -> IF cell.text \in Numerals
                              THEN <<numeric_text(cell.text)>> ELSE <<>>
      [] cell.kind = "nan" -> <<>>

\* str(cell), the element-wise conversion of astype(str)
object_astype_str(cell) ==
    CASE cell.kind = "int" -> py_str(astype_str(cell.num))
      [] cell.kind = "str" -> cell
      [] cell.kind = "nan" -> py_str("nan")

\* 'c' in df.columns and df[c].notna().any()
notna_any(df, c) ==
    /\ HasColumn(df, c)
    /\ \E i \in 1..Len(df) : df[i][c] # NaN

\* the canonical columns with the alternate field tried first
normalized_row_alternate_first(r, df) ==
    (IF HasColumn(df, "period") THEN [year |-> to_numeric(r.period)]
     ELSE IF HasColumn(df, "refYear") THEN [year |-> to_numeric(r.refYear)] ELSE <<>>)
    @@ (IF HasColumn(df, "cifvalue")
        THEN [trade_value |-> to_numeric(r.cifvalue)]
        ELSE IF HasColumn(df, "primaryValue")
             THEN [trade_value |-> to_numeric(r.primaryValue)] ELSE <<>>)
    @@ (IF HasColumn(df, "qty") THEN [trade_quantity |-> to_numeric(r.qty)]
        ELSE <<>>)
    @@ (IF HasColumn(df, "netWgt") THEN [netweight |-> to_numeric(r.netWgt)]
        ELSE <<>>)
    @@ (IF notna_any(df, "reporterISO") THEN [partner |-> r.reporterISO]
        ELSE IF notna_any(df, "reporterCode")
             THEN [partner |-> object_astype_str(r.reporterCode)]
        ELSE <<>>)

\* the canonical columns of the mirror-data rows, by the fixed preference;
\* year, trade_value, trade_quantity and netweight are <<x>> or <<>> (NaN),
\* partner is a Python object
normalized_row(r, df) ==
    (IF HasColumn(df, "refYear") THEN [year |-> to_numeric(r.refYear)]
     ELSE IF HasColumn(df, "period") THEN [year |-> to_numeric(r.period)] ELSE <<>>)
    @@ (IF HasColumn(df, "primaryValue")
        THEN [trade_value |-> to_numeric(r.primaryValue)]
        ELSE IF HasColumn(df, "cifvalue")
             THEN [trade_value |-> to_numeric(r.cifvalue)] ELSE <<>>)
    @@ (IF HasColumn(df, "qty") THEN [trade_quantity |-> to_numeric(r.qty)]
        ELSE <<>>)
    @@ (IF HasColumn(df, "netWgt") THEN [netweight |-> to_numeric(r.netWgt)]
        ELSE <<>>)
    @@ (IF notna_any(df, "reporterCode")
        THEN [partner |-> object_astype_str(r.reporterCode)]
        ELSE IF notna_any(df, "reporterISO") THEN [partner |-> r.reporterISO]
        ELSE <<>>)

\* an exception of getFinalData is not caught here
fetch_afghanistan_exports_batch_raises(response) == response.outcome = "raises"

\* None, an empty DataFrame and an empty list all give the empty table
fetch_afghanistan_exports_batch(response) ==
    IF response.outcome = "None" THEN <<>>
    ELSE IF response.rows = <<>> THEN <<>>
    ELSE [i \in 1..Len(response.rows) |->
            normalized_row(response.rows[i], response.rows)]

\* every failure is caught and gives the empty table
fetch_unified_global_imports(response, years) ==
    IF response.outcome \notin {"table", "list"} THEN <<>>
    ELSE IF response.rows = <<>> THEN <<>>
    ELSE IF ~HasColumn(response.rows, "reporterCode") THEN <<>>
    ELSE IF ~HasColumn(response.rows, "partnerCode") THEN <<>>
    ELSE IF ~(HasColumn(response.rows, "refYear")
              \/ HasColumn(response.rows, "period")) THEN <<>>
    ELSE SelectSeq([i \in 1..Len(response.rows) |->
                       LET r == response.rows[i]
                       IN  [year         |-> IF HasColumn(response.rows, "refYear")
                                             THEN r.refYear ELSE r.period,
                            reporterCode |-> astype_str(r.reporterCode),
                            partnerCode  |-> astype_str(r.partnerCode)] @@ r],
                   LAMBDA x : InYears(x.year, years))

-----------------------------------------------------------------------------
(* main.py: analyze_product *)

\* groupby(['year', 'partner']).agg(sum of trade_value and trade_quantity)
\* raises KeyError when one of the four columns is missing
aggregate_raises(all_exports) ==
    ~({"year", "partner", "trade_value", "trade_quantity"} \subseteq DOMAIN all_exports[1])

\* Series.sum() of a column of floats: the NaN cells are skipped
nansum(f) == SumSeq([i \in 1..Len(f) |-> IF f[i] = <<>> THEN 0 ELSE f[i][1]])

\* the groups are ordered by year and partner; a row whose year is NA is in no
\* group.  The partner column is the str column made from reporterCode.
aggregate(all_exports) ==
    LET keyed == SelectSeq(all_exports, LAMBDA r : r.year # <<>>)
        ys == SortedSeq({keyed[i].year[1] : i \in 1..Len(keyed)})
        cell(y, m) ==
            LET g == SelectSeq(keyed, LAMBDA r : r.year = <<y>> /\ r.partner = py_str(m))
            IN  IF g = <<>> THEN <<>>
                ELSE <<[year |-> y, partner |-> m,
                        trade_value |-> nansum(Column(g, "trade_value")),
                        trade_quantity |-> nansum(Column(g, "trade_quantity"))]>>
    IN  Flatten([i \in 1..Len(ys) |->
            Flatten([j \in 1..Len(CodeOrder) |-> cell(ys[i], CodeOrder[j])])])

latest_year == SetMax(Range(YEARS))

\* the result of a product whose fetch failed, reported as an error
no_data_as_error(product) == [product |-> product, status |-> "error", markets |-> <<>>]

no_data(product) == [product |-> product, status |-> "no_data", markets |-> <<>>]

no_markets(product) == [product |-> product, status |-> "no_markets", markets |-> <<>>]

success(product, df, analyses) ==
    [product |-> product, status |-> "success",
     total_export_value |-> SumSeq(Column(df, "trade_value")),
     markets |-> analyses]

\* the supplier rows of one market, without the partner_code column
suppliers_of(batch_supplier_data, market_code) ==
    LET t == SelectSeq(batch_supplier_data, LAMBDA r : r.partner_code = market_code)
    IN  [i \in 1..Len(t) |->
            [year |-> t[i].year, supplier |-> t[i].supplier,
             trade_value |-> t[i].trade_value,
             trade_quantity |-> t[i].trade_quantity]]

\* one pass of the loop over top_markets raises when get_market_rank does
market_raises(market_row, batch_supplier_data) ==
    LET all_suppliers == suppliers_of(batch_supplier_data, market_row.partner)
    IN  /\ all_suppliers # <<>>
        /\ get_market_rank_raises(all_suppliers, <<latest_year>>)

\* the possible entries one pass of the loop appends to market_analyses
market_analysis(market_row, df, batch_market_imports, batch_supplier_data) ==
    LET market_code      == market_row.partner
        df_exports_latest == SelectSeq(df, LAMBDA r : r.year = latest_year)
        all_suppliers    == suppliers_of(batch_supplier_data, market_code)
        afg_unit_price   == calculate_unit_price(df, <<market_code>>, <<latest_year>>)
        compared         == afg_unit_price # NULL /\ all_suppliers # <<>>
    IN  {[market_code        |-> market_code,
          export_value       |-> SumSeq(Column(SelectSeq(df_exports_latest,
                                     LAMBDA r : r.partner = market_code),
                                     "trade_value")),
          global_market_size |-> market_row.trade_value,
          rank               |-> market_row.rank,
          growth_rate        |-> calculate_growth_rate(df, market_code, YEARS),
          market_share       |-> IF batch_market_imports # <<>>
                                 THEN calculate_market_share(df_exports_latest,
                                          batch_market_imports, market_code,
                                          <<latest_year>>)
                                 ELSE NULL,
          market_rank        |-> market_rank,
          unit_price         |-> afg_unit_price,
          market_price_comparison |->
              IF compared
              THEN compare_to_competitors_in_market(afg_unit_price, all_suppliers,
                                                    market_code)
              ELSE <<>>,
          competitor_comparison |->
              IF compared THEN compare_to_competitors(afg_unit_price, all_suppliers, 5)
              ELSE <<>>,
          competitor_shares  |-> shares] :
            market_rank \in IF all_suppliers # <<>>
                            THEN get_market_rank(df, all_suppliers, market_code,
                                                 <<latest_year>>)
                            ELSE {NULL},
            shares \in IF all_suppliers # <<>>
                       THEN get_competitor_shares(all_suppliers, market_code, 5,
                                                  <<latest_year>>)
                       ELSE {<<>>}}

-----------------------------------------------------------------------------
(* Inputs of the indicator functions *)

MaxGrowthRows == 3

Markets == {"356", "842"}

GrowthYears == {2021, 2023, 2024}

GrowthValues == {0, 100, 150}

GrowthRow == [year : GrowthYears, partner : Markets, trade_value : GrowthValues]

GrowthArgs == [df_exports : SeqsUpTo(GrowthRow, MaxGrowthRows),
               market_code : Markets]

MaxShareRows == 2

MaxTotalRows == 2

ShareYears == {2023, 2024}

ShareRow == [year : ShareYears, partner : Markets, trade_value : {0, 20}]

TotalRow == [year : ShareYears, partner_code : Markets,
             total_import_value : {0, 40}]

ShareArgs == [afg_exports : SeqsUpTo(ShareRow, MaxShareRows),
              total_imports : SeqsUpTo(TotalRow, MaxTotalRows),
              market_code : {"356"},
              year : {NULL} \cup {<<y>> : y \in ShareYears}]

MaxCompetitorRows == 3

CompetitorRow == [trade_value : {0, 8, 10, 12},
                  trade_quantity : {NULL, <<0>>, <<1>>}]

UnitPrices == {NULL, <<15, 2>>, Num(9), Num(10), Num(11), Num(12), Num(13)}

PriceArgs == [afg_unit_price : UnitPrices,
              competitor_data : SeqsUpTo(CompetitorRow, MaxCompetitorRows),
              market_code : {"356"}]

MaxRankRows == 3

RankMarkets == {"156", "356", "842"}

RankYears == {2023, 2024}

RankRow == [year : RankYears, partner : RankMarkets, trade_value : {10, 20}]

TopNs == {2, TOP_N_MARKETS}

RankArgs == [df_exports : SeqsUpTo(RankRow, MaxRankRows),
             top_n : TopNs,
             year : {NULL, <<2024>>}]

MaxGlobalRows == 3

GlobalRow == [reporterCode : RankMarkets, partnerCode : {WORLD, "4"},
              year : RankYears, primaryValue : {10, 20}, qty : {<<1>>}]

GlobalArgs == [hs_code : {"080211"},
               top_n : TopNs,
               unified_data : SeqsUpTo(GlobalRow, MaxGlobalRows)]

MaxUnifiedRows == 3

\* 2020 lies outside YEARS
UnifiedRow == [reporterCode : Markets, partnerCode : {WORLD, "156"},
               year : {2020, 2024}, primaryValue : {10, 20}, qty : {<<1>>}]

\* the partnerDesc column of the API response
COUNTRY_NAME(code) == IF code = WORLD THEN "World" ELSE "China"

with_partnerDesc(df) ==
    [i \in 1..Len(df) |->
        [reporterCode |-> df[i].reporterCode, partnerCode |-> df[i].partnerCode,
         year |-> df[i].year, primaryValue |-> df[i].primaryValue,
         qty |-> df[i].qty, partnerDesc |-> COUNTRY_NAME(df[i].partnerCode)]]

UnifiedTables ==
    SeqsUpTo(UnifiedRow, MaxUnifiedRows)
    \cup {with_partnerDesc(t) : t \in SeqsUpTo(UnifiedRow, MaxUnifiedRows)}

ExtractArgs == [partner_codes : {<<"356">>, <<"842", "356">>},
                hs_code : {"080211"},
                unified_data : UnifiedTables]

ExtractFunctions == {"fetch_market_imports_batch",
                     "fetch_market_imports_by_partner_batch",
                     "fetch_global_imports"}

MaxRawRows == 2

\* a year as the API's int refYear or str period, or not a number
YearCells == {py_int(2024), py_str("2024"), py_str("n/a")}

ValueCells == {py_int(20), py_str("n/a")}

ReporterCells == {py_int(356), py_str("356")}

PreferredRawRow == [refYear : YearCells, primaryValue : ValueCells,
                    reporterCode : ReporterCells]

AlternateRawRow == [period : YearCells, cifvalue : ValueCells,
                    reporterISO : ReporterCells]

\* a row that carries the preferred and the alternate field of each column
BothRawRow == [refYear : {py_int(2024), py_str("n/a")}, period : {py_int(2023)},
               primaryValue : {py_int(20), py_str("n/a")}, cifvalue : {py_int(25)},
               reporterCode : {py_int(356)}, reporterISO : {py_str("IND")}]

\* a row with a net weight and no quantity, and one with both
NetWeightRawRow == [refYear : {py_int(2024)}, reporterCode : {py_int(356)},
                    primaryValue : {py_int(20)}, netWgt : {py_int(5), NaN}]

QuantityRawRow == [refYear : {py_int(2024)}, reporterCode : {py_int(356)},
                   primaryValue : {py_int(20)}, qty : {py_int(4)},
                   netWgt : {py_int(5)}]

RawTables == SeqsUpTo(PreferredRawRow, MaxRawRows)
             \cup SeqsUpTo(AlternateRawRow, MaxRawRows)
             \cup SeqsUpTo(BothRawRow, MaxRawRows)
             \cup SeqsUpTo(NetWeightRawRow, MaxRawRows)
             \cup SeqsUpTo(QuantityRawRow, MaxRawRows)

NormalizerArgs ==
    [response : {[outcome |-> "None", rows |-> <<>>]}
                \cup [outcome : {"table", "list"}, rows : RawTables]]

MaxPriceRows == 2

PriceRow == [year : {2023, 2024}, partner : Markets, trade_value : {0, 30},
             trade_quantity : {0, 4}]

without_trade_quantity(df) ==
    [i \in 1..Len(df) |->
        [year |-> df[i].year, partner |-> df[i].partner,
         trade_value |-> df[i].trade_value]]

UnitPriceArgs ==
    [df_exports : SeqsUpTo(PriceRow, MaxPriceRows)
                  \cup {without_trade_quantity(t) : t \in SeqsUpTo(PriceRow, MaxPriceRows)},
     partner : {NULL, <<"356">>},
     year : {NULL, <<2024>>}]

MaxSupplierRows == 2

\* the documented columns of all_suppliers: year, supplier, import_value
SupplierRow == [year : {2023, 2024}, supplier : {AFGHANISTAN_CODE, "156"},
                import_value : {0, 10, 20}]

SubjectRow == [year : {2024}, partner : {"356"}, trade_value : {0, 10, 15}]

MaxNormalizedRows == 2

\* the columns of the normalised export records that the aggregation reads
NormalizedRow == [year : {<<2023>>, <<2024>>},
                  partner : {py_str("356"), py_str("842")},
                  trade_value : {<<10>>, <<20>>},
                  trade_quantity : {<<>>, <<1>>}]

AggregateArgs == [all_exports : SeqsUpTo(NormalizedRow, MaxNormalizedRows) \ {<<>>}]

MaxGlobalPriceRows == 2

GlobalPriceRow == [year : {2023, 2024}, trade_value : {0, 100},
                   trade_quantity : {0, 10}]

\* prices around the average 10: 9.99, 9.995, 10, 10.005, 10.01
SubjectPrices == {NULL, Num(8), <<999, 100>>, <<1999, 200>>, Num(10),
                  <<2001, 200>>, <<1001, 100>>, Num(12)}

GlobalAverageArgs ==
    [afg_unit_price : SubjectPrices,
     global_prices : SeqsUpTo(GlobalPriceRow, MaxGlobalPriceRows) \ {<<>>},
     year : {NULL, <<2024>>}]

MaxShareSupplierRows == 2

\* the columns of the supplier breakdown: year, supplier, trade_value
ShareSupplierRow == [year : {2023, 2024}, supplier : {"4", "156"},
                     trade_value : {0, 10, 30}]

CompetitorSharesArgs ==
    [all_suppliers : SeqsUpTo(ShareSupplierRow, MaxShareSupplierRows),
     market_code : {"356"},
     top_n : {1, 5},
     year : {NULL, <<2024>>}]

MarketRankArgs == [afg_exports : SeqsUpTo(SubjectRow, 1),
                   all_suppliers : SeqsUpTo(SupplierRow, MaxSupplierRows),
                   market_code : {"356"},
                   year : {NULL, <<2024>>}]

-----------------------------------------------------------------------------
(* The indicator functions, each applied once to inputs drawn at Init *)

PipelineIdle ==
    /\ pc = "idle"
    /\ idx = 0
    /\ exports_response = <<>>
    /\ unified_queries = 0
    /\ all_results = <<>>
    /\ outputs = FALSE
    /\ product_exports = <<>>
    /\ unified_global_data = <<>>
    /\ top_markets = <<>>
    /\ market_analyses = <<>>

InitIndicators ==
    /\ PipelineIdle
    /\ upc = "call"
    /\ ret = NULL
    /\ \/ fn = "calculate_growth_rate" /\ args \in GrowthArgs
       \/ fn = "calculate_market_share" /\ args \in ShareArgs
       \/ fn = "compare_to_competitors_in_market" /\ args \in PriceArgs
       \/ fn = "identify_top_markets" /\ args \in RankArgs
       \/ fn \in ExtractFunctions /\ args \in ExtractArgs
       \/ fn = "identify_top_global_import_markets" /\ args \in GlobalArgs
       \/ fn = "fetch_afghanistan_exports_batch" /\ args \in NormalizerArgs
       \/ fn = "calculate_unit_price" /\ args \in UnitPriceArgs
       \/ fn = "get_market_rank" /\ args \in MarketRankArgs
       \/ fn = "get_competitor_shares" /\ args \in CompetitorSharesArgs
       \/ fn = "aggregate" /\ args \in AggregateArgs
       \/ fn = "compare_to_global_average" /\ args \in GlobalAverageArgs

Call_calculate_growth_rate ==
    /\ upc = "call"
    /\ fn = "calculate_growth_rate"
    /\ ret' = calculate_growth_rate(args.df_exports, args.market_code, YEARS)
    /\ upc' = "done"
    /\ UNCHANGED <<fn, args, pipeline>>

Call_calculate_market_share ==
    /\ upc = "call"
    /\ fn = "calculate_market_share"
    /\ ret' = calculate_market_share(args.afg_exports, args.total_imports,
                                     args.market_code, args.year)
    /\ upc' = "done"
    /\ UNCHANGED <<fn, args, pipeline>>

Call_compare_to_competitors_in_market ==
    /\ upc = "call"
    /\ fn = "compare_to_competitors_in_market"
    /\ ret' = compare_to_competitors_in_market(args.afg_unit_price,
                                               args.competitor_data,
                                               args.market_code)
    /\ upc' = "done"
    /\ UNCHANGED <<fn, args, pipeline>>

Call_identify_top_markets ==
    /\ upc = "call"
    /\ fn = "identify_top_markets"
    /\ ret' \in identify_top_markets(args.df_exports, args.top_n, args.year)
    /\ upc' = "done"
    /\ UNCHANGED <<fn, args, pipeline>>

Call_identify_top_global_import_markets ==
    /\ upc = "call"
    /\ fn = "identify_top_global_import_markets"
    /\ ret' \in identify_top_global_import_markets(args.hs_code, YEARS, args.top_n,
                                                   args.unified_data)
    /\ upc' = "done"
    /\ UNCHANGED <<fn, args, pipeline>>

Call_fetch_market_imports_batch ==
    /\ upc = "call"
    /\ fn = "fetch_market_imports_batch"
    /\ ret' = fetch_market_imports_batch(args.partner_codes, args.hs_code, YEARS,
                                         args.unified_data)
    /\ upc' = "done"
    /\ UNCHANGED <<fn, args, pipeline>>

Call_fetch_market_imports_by_partner_batch ==
    /\ upc = "call"
    /\ fn = "fetch_market_imports_by_partner_batch"
    /\ ret' = fetch_market_imports_by_partner_batch(args.partner_codes, args.hs_code,
                                                    YEARS, args.unified_data)
    /\ upc' = "done"
    /\ UNCHANGED <<fn, args, pipeline>>

Call_fetch_global_imports ==
    /\ upc = "call"
    /\ fn = "fetch_global_imports"
    /\ ret' = fetch_global_imports(args.hs_code, YEARS, args.unified_data)
    /\ upc' = "done"
    /\ UNCHANGED <<fn, args, pipeline>>

Call_fetch_afghanistan_exports_batch ==
    /\ upc = "call"
    /\ fn = "fetch_afghanistan_exports_batch"
    /\ ~fetch_afghanistan_exports_batch_raises(args.response)
    /\ ret' = fetch_afghanistan_exports_batch(args.response)
    /\ upc' = "done"
    /\ UNCHANGED <<fn, args, pipeline>>

Call_calculate_unit_price ==
    /\ upc = "call"
    /\ fn = "calculate_unit_price"
    /\ ret' = calculate_unit_price(args.df_exports, args.partner, args.year)
    /\ upc' = "done"
    /\ UNCHANGED <<fn, args, pipeline>>

Call_get_market_rank ==
    /\ upc = "call"
    /\ fn = "get_market_rank"
    /\ ~get_market_rank_raises(args.all_suppliers, args.year)
    /\ ret' \in get_market_rank_locals(args.afg_exports, args.all_suppliers,
                                       args.market_code, args.year)
    /\ upc' = "done"
    /\ UNCHANGED <<fn, args, pipeline>>

Call_get_competitor_shares ==
    /\ upc = "call"
    /\ fn = "get_competitor_shares"
    /\ ret' \in get_competitor_shares(args.all_suppliers, args.market_code,
                                      args.top_n, args.year)
    /\ upc' = "done"
    /\ UNCHANGED <<fn, args, pipeline>>

\* the aggregation of analyze_product by year and partner
Call_aggregate ==
    /\ upc = "call"
    /\ fn = "aggregate"
    /\ ~aggregate_raises(args.all_exports)
    /\ ret' = aggregate(args.all_exports)
    /\ upc' = "done"
    /\ UNCHANGED <<fn, args, pipeline>>

Call_compare_to_global_average ==
    /\ upc = "call"
    /\ fn = "compare_to_global_average"
    /\ ret' = compare_to_global_average(args.afg_unit_price, args.global_prices,
                                        args.year)
    /\ upc' = "done"
    /\ UNCHANGED <<fn, args, pipeline>>

NextIndicators ==
    \/ Call_calculate_growth_rate
    \/ Call_fetch_market_imports_batch
    \/ Call_fetch_market_imports_by_partner_batch
    \/ Call_fetch_global_imports
    \/ Call_identify_top_markets
    \/ Call_identify_top_global_import_markets
    \/ Call_calculate_market_share
    \/ Call_compare_to_competitors_in_market
    \/ Call_fetch_afghanistan_exports_batch
    \/ Call_calculate_unit_price
    \/ Call_get_market_rank
    \/ Call_get_competitor_shares
    \/ Call_aggregate
    \/ Call_compare_to_global_average

SpecIndicators == InitIndicators /\ [][NextIndicators]_vars

Returned(f) == upc = "done" /\ fn = f

-----------------------------------------------------------------------------
(* main.py: the pipeline over PRODUCTS *)

\* the first products of config.PRODUCTS
PRODUCTS == <<"Almonds In-Shell", "Almonds Shelled">>

MaxExportRows == 2

MaxResponseRows == 2

ExportRawRow == [refYear : {py_int(2023), py_int(2024)}, reporterCode : {py_int(356)},
                 primaryValue : {py_int(20)}, qty : {py_int(4)}]

without_qty(rows) ==
    [i \in 1..Len(rows) |->
        [refYear |-> rows[i].refYear, reporterCode |-> rows[i].reporterCode,
         primaryValue |-> rows[i].primaryValue]]

ExportResponses ==
    {[outcome |-> "raises", rows |-> <<>>], [outcome |-> "None", rows |-> <<>>]}
    \cup {[outcome |-> "list", rows |-> <<>>]}
    \cup {[outcome |-> "table", rows |-> t] : t \in SeqsUpTo(ExportRawRow, MaxExportRows)}
    \cup {[outcome |-> "table", rows |-> without_qty(t)] :
             t \in SeqsUpTo(ExportRawRow, MaxExportRows)}

\* the first market with its World total, the subject and a competitor in two
\* years, the second market with its World total of the latest year
UnifiedRawRow ==
    [reporterCode : {356}, partnerCode : {0, 4, 156}, refYear : {2023, 2024},
     primaryValue : {100}, qty : {<<10>>}]
    \cup [reporterCode : {842}, partnerCode : {0}, refYear : {2024},
          primaryValue : {100}, qty : {<<10>>}]

UnifiedResponses ==
    {[outcome |-> "raises", rows |-> <<>>]}
    \cup {[outcome |-> "table", rows |-> t] :
             t \in SeqsUpTo(UnifiedRawRow, MaxResponseRows)}

\* the unified_data argument of an extraction is None, <<>>, or a table t,
\* <<t>>.  The extraction copies a table it is given and queries the API
\* itself for None.

\* the test with an empty table taken for None
fetches_when_empty(unified_data) == unified_data = NULL \/ unified_data[1] = <<>>

\* not (unified_data is not None)
fetches(unified_data) == unified_data = NULL

queries_of(unified_data) == IF fetches(unified_data) THEN 1 ELSE 0

\* the responses of the API to the query of an extraction, if it issues one
QueryResponses(unified_data) ==
    IF fetches(unified_data) THEN UnifiedResponses
    ELSE {[outcome |-> "none", rows |-> <<>>]}

\* the table the extraction works on
provided_or_fetched(unified_data, response, years) ==
    IF fetches(unified_data) THEN fetch_unified_global_imports(response, years)
    ELSE unified_data[1]

Init ==
    /\ pc = "fetch_exports"
    /\ idx = 1
    /\ exports_response = <<>>
    /\ unified_queries = 0
    /\ all_results = <<>>
    /\ outputs = FALSE
    /\ product_exports = <<>>
    /\ unified_global_data = <<>>
    /\ top_markets = <<>>
    /\ market_analyses = <<>>
    /\ fn = "main"
    /\ args = <<>>
    /\ ret = NULL
    /\ upc = "idle"

\* a return that leaves the list of market analyses to the next product
Return_without_reset(result) ==
    /\ all_results' = Append(all_results, result)
    /\ idx' = idx + 1
    /\ pc' = IF idx = Len(PRODUCTS) THEN "outputs" ELSE "fetch_exports"
    /\ product_exports' = <<>>
    /\ unified_global_data' = <<>>
    /\ top_markets' = <<>>
    /\ market_analyses' = market_analyses

\* analyze_product returns result: main appends it and takes the next product
Return(result) ==
    /\ all_results' = Append(all_results, result)
    /\ idx' = idx + 1
    /\ pc' = IF idx = Len(PRODUCTS) THEN "outputs" ELSE "fetch_exports"
    /\ product_exports' = <<>>
    /\ unified_global_data' = <<>>
    /\ top_markets' = <<>>
    /\ market_analyses' = <<>>

\* an exception leaves analyze_product and main: neither has a handler
Raise ==
    /\ pc' = "raised"
    /\ UNCHANGED <<idx, all_results, product_exports, unified_global_data, top_markets,
                   market_analyses>>

\* analyze_product up to the aggregation of the exports (main.py:76-107)
FetchExports ==
    /\ pc = "fetch_exports"
    /\ \E response \in ExportResponses :
          /\ exports_response' = response
          /\ unified_queries' = 0
          /\ IF fetch_afghanistan_exports_batch_raises(response) THEN Raise
             ELSE LET all_exports == fetch_afghanistan_exports_batch(response)
                  IN  IF all_exports = <<>> THEN Return(no_data(PRODUCTS[idx]))
                      ELSE IF aggregate_raises(all_exports) THEN Raise
                      ELSE /\ product_exports' = aggregate(all_exports)
                           /\ pc' = "fetch_unified"
                           /\ UNCHANGED <<idx, all_results, unified_global_data,
                                          top_markets, market_analyses>>
    /\ UNCHANGED <<outputs, call>>

\* the single unified query (main.py:123-131)
FetchUnified ==
    /\ pc = "fetch_unified"
    /\ \E response \in UnifiedResponses :
          unified_global_data' = fetch_unified_global_imports(response, YEARS)
    /\ unified_queries' = unified_queries + 1
    /\ pc' = "identify"
    /\ UNCHANGED <<idx, exports_response, all_results, outputs, product_exports,
                   top_markets, market_analyses, call>>

\* the top markets of the unified table and the two batch extractions for
\* them (main.py:133-160).  Each extraction gets the table of FetchUnified as
\* its unified_data argument: fetch_global_imports behind
\* identify_top_global_import_markets, then fetch_market_imports_batch and
\* fetch_market_imports_by_partner_batch once there are markets.
IdentifyMarkets ==
    /\ pc = "identify"
    /\ LET unified_data == <<unified_global_data>>
       IN  \E response \in QueryResponses(unified_data) :
           \E markets \in identify_top_global_import_markets("080211", YEARS,
                              TOP_N_MARKETS,
                              provided_or_fetched(unified_data, response, YEARS)) :
              IF markets = <<>>
              THEN /\ Return(no_markets(PRODUCTS[idx]))
                   /\ unified_queries' = unified_queries + queries_of(unified_data)
              ELSE /\ top_markets' = markets
                   /\ pc' = "markets"
                   /\ unified_queries' =
                         unified_queries + 3 * queries_of(unified_data)
                   /\ UNCHANGED <<idx, all_results, product_exports,
                                  unified_global_data, market_analyses>>
    /\ UNCHANGED <<exports_response, outputs, call>>

\* one pass of the loop over top_markets (main.py:157-262)
AnalyzeMarket ==
    /\ pc = "markets"
    /\ Len(market_analyses) < Len(top_markets)
    /\ LET market_row == top_markets[Len(market_analyses) + 1]
           codes      == Column(top_markets, "partner")
           batch_market_imports ==
               fetch_market_imports_batch(codes, "080211", YEARS, unified_global_data)
           batch_supplier_data ==
               fetch_market_imports_by_partner_batch(codes, "080211", YEARS,
                                                     unified_global_data)
       IN  IF market_raises(market_row, batch_supplier_data) THEN Raise
           ELSE /\ \E analysis \in market_analysis(market_row, product_exports,
                                       batch_market_imports, batch_supplier_data) :
                      market_analyses' = Append(market_analyses, analysis)
                /\ UNCHANGED <<pc, idx, all_results, product_exports,
                               unified_global_data, top_markets>>
    /\ UNCHANGED <<exports_response, unified_queries, outputs, call>>

\* the end of the loop: analyze_product returns success (main.py:264-278)
FinishProduct ==
    /\ pc = "markets"
    /\ Len(market_analyses) = Len(top_markets)
    /\ Return(success(PRODUCTS[idx], product_exports, market_analyses))
    /\ UNCHANGED <<exports_response, unified_queries, outputs, call>>

\* generate_summary_csv and generate_detailed_json (main.py:426-432)
GenerateOutputs ==
    /\ pc = "outputs"
    /\ outputs' = TRUE
    /\ pc' = "done"
    /\ UNCHANGED <<idx, exports_response, unified_queries, all_results,
                   product_exports, unified_global_data, top_markets,
                   market_analyses, call>>

Next ==
    \/ FetchExports
    \/ FetchUnified
    \/ IdentifyMarkets
    \/ AnalyzeMarket
    \/ FinishProduct
    \/ GenerateOutputs

Spec == Init /\ [][Next]_vars

-----------------------------------------------------------------------------
(* Error handling of the pipeline *)

\* C9: no exception escapes the analysis of a product: whatever the fetches
\* return or raise, main goes on to the remaining products and generates the
\* outputs
C9_NoExceptionEscapes == pc # "raised"

\* the KeyError of get_market_rank ends the run inside the loop over the
\* markets of the first product
C9_RankKeyErrorReached ==
    /\ pc = "raised"
    /\ top_markets # <<>>
    /\ all_results = <<>>
    /\ ~outputs

IsEmptyResponse(r) ==
    \/ r.outcome = "None"
    \/ r.outcome \in {"table", "list"} /\ r.rows = <<>>

\* C17: when the export query returns None, an empty table or an empty list,
\* nothing is raised and the product ends with status no_data and no
\* markets: main is at the next product (or at the outputs) and no unified
\* fetch, market identification or market analysis was made for it
C17_EmptySourceIsNoData ==
    (exports_response # <<>> /\ IsEmptyResponse(exports_response))
    => /\ pc \in {"fetch_exports", "outputs", "done"}
       /\ idx >= 2
       /\ Len(all_results) = idx - 1
       /\ all_results[idx - 1] = [product |-> PRODUCTS[idx - 1],
                                   status  |-> "no_data",
                                   markets |-> <<>>]
       /\ product_exports = <<>>
       /\ unified_global_data = <<>>
       /\ top_markets = <<>>
       /\ market_analyses = <<>>

\* the second product ends with no_data on an empty list after the first
\* one succeeded
C17_Witness ==
    /\ exports_response = [outcome |-> "list", rows |-> <<>>]
    /\ Len(all_results) = 2
    /\ all_results[1].status = "success"
    /\ all_results[2].status = "no_data"
    /\ all_results[2].markets = <<>>

-----------------------------------------------------------------------------
(* The competitor set of the price comparison *)

\* the table analyze_product passes to compare_to_competitors_in_market for
\* a market of top_markets
competitor_table(market_code) ==
    suppliers_of(fetch_market_imports_by_partner_batch(
                     Column(top_markets, "partner"), "080211", YEARS,
                     unified_global_data),
                 market_code)

\* the passes of the loop in which compare_to_competitors_in_market was called
Compared == {i \in 1..Len(market_analyses) :
                market_analyses[i].market_price_comparison # <<>>}

\* the supplier rows of a market in the latest year that have a quantity > 0
TargetYearPrices(market_code) ==
    LET t == SelectSeq(unified_global_data,
                       LAMBDA r : /\ r.reporterCode = market_code
                                  /\ r.partnerCode # WORLD
                                  /\ r.year = latest_year
                                  /\ r.qty # <<>>
                                  /\ r.qty[1] > 0)
    IN  [i \in 1..Len(t) |-> Rat(t[i].primaryValue, t[i].qty[1])]

\* C16: the reference price of a market in analyze_product is the unweighted
\* mean of value / quantity over the supplier rows of that market and of the
\* target year with quantity > 0; rows of other years never contribute
C16_ReferencePriceOfTargetYear ==
    \A i \in Compared :
        LET prices == TargetYearPrices(market_analyses[i].market_code)
        IN  market_analyses[i].market_price_comparison.market_avg_price =
                IF prices = <<>> THEN NULL ELSE mean(prices)

\* C18: the table passed to compare_to_competitors_in_market has no row
\* whose supplier is the subject (Afghanistan, partner code 4)
C18_SubjectNotAmongCompetitors ==
    \A i \in Compared :
        LET t == competitor_table(market_analyses[i].market_code)
        IN  \A j \in 1..Len(t) : t[j].supplier # afghanistan_code

-----------------------------------------------------------------------------
(* Market Identifier *)

IsMarketIdentifier == \/ Returned("identify_top_markets")
                      \/ Returned("identify_top_global_import_markets")

\* C1: the ranks the Market Identifier assigns are dense: the first is 1,
\* partners with equal totals share a rank, and the next distinct total gets
\* the next integer
C1_RanksAreDense ==
    IsMarketIdentifier
    => /\ ret # <<>> => ret[1].rank = 1
       /\ \A i \in 1..(Len(ret) - 1) :
             IF ret[i + 1].trade_value = ret[i].trade_value
             THEN ret[i + 1].rank = ret[i].rank
             ELSE ret[i + 1].rank = ret[i].rank + 1

-----------------------------------------------------------------------------
(* World aggregate rows *)

IsWorldRow(r) == r.partnerCode = WORLD

\* the primaryValue of the World rows of one market and year
WorldValue(df, m, y) ==
    SumSeq(Column(SelectSeq(df, LAMBDA r : IsWorldRow(r) /\ r.reporterCode = m
                                           /\ r.year = y), "primaryValue"))

\* C10: no World aggregate row appears in the supplier breakdown of
\* fetch_market_imports_by_partner_batch (every non-World row of a requested
\* market and year does), and every market-size total of
\* fetch_market_imports_batch and fetch_global_imports is the sum of the
\* World rows of that market and year alone
C10_WorldRowsOnlyAsTotals ==
    /\ Returned("fetch_market_imports_by_partner_batch")
       => /\ \A i \in 1..Len(ret) : ret[i].supplier \notin {WORLD, COUNTRY_NAME(WORLD)}
          /\ Len(ret) = Cardinality({i \in 1..Len(args.unified_data) :
                            LET r == args.unified_data[i]
                            IN  /\ ~IsWorldRow(r)
                                /\ r.reporterCode \in Range(args.partner_codes)
                                /\ InYears(r.year, YEARS)})
    /\ Returned("fetch_market_imports_batch")
       => \A i \in 1..Len(ret) :
             /\ ret[i].total_import_value =
                    WorldValue(args.unified_data, ret[i].partner_code, ret[i].year)
             /\ \E j \in 1..Len(args.unified_data) :
                    /\ IsWorldRow(args.unified_data[j])
                    /\ args.unified_data[j].reporterCode = ret[i].partner_code
                    /\ args.unified_data[j].year = ret[i].year
    /\ Returned("fetch_global_imports")
       => \A i \in 1..Len(ret) :
             /\ ret[i].trade_value =
                    WorldValue(args.unified_data, ret[i].partner, ret[i].year)
             /\ \E j \in 1..Len(args.unified_data) :
                    /\ IsWorldRow(args.unified_data[j])
                    /\ args.unified_data[j].reporterCode = ret[i].partner
                    /\ args.unified_data[j].year = ret[i].year

\* a table that mixes World and supplier rows of one market and year
C10_Witness ==
    /\ Returned("fetch_market_imports_by_partner_batch")
    /\ Len(args.unified_data) = 3
    /\ \E i, j \in 1..3 :
          /\ IsWorldRow(args.unified_data[i])
          /\ ~IsWorldRow(args.unified_data[j])
          /\ args.unified_data[i].reporterCode = "356"
          /\ args.unified_data[j].reporterCode = "356"
          /\ args.unified_data[i].year = 2024
          /\ args.unified_data[j].year = 2024
    /\ Len(ret) = 1

-----------------------------------------------------------------------------
(* Growth Calculator *)

DistinctYears(df, market_code) ==
    {df[i].year : i \in {j \in 1..Len(df) : df[j].partner = market_code}}

\* C2: with fewer than 2 distinct years of records for the market (zero
\* records included) calculate_growth_rate returns yoy_growth, cagr,
\* absolute_growth and growth_percentage all None
C2_InsufficientHistoryAllNull ==
    (Returned("calculate_growth_rate")
        /\ Cardinality(DistinctYears(args.df_exports, args.market_code)) < 2)
    => /\ ret.yoy_growth = NULL
       /\ ret.cagr = NULL
       /\ ret.absolute_growth = NULL
       /\ ret.growth_percentage = NULL

C2_Witness ==
    /\ Returned("calculate_growth_rate")
    /\ Cardinality(DistinctYears(args.df_exports, args.market_code)) = 1
    /\ Len(args.df_exports) = 3
    /\ ret = NoGrowth

ValueOfYear(df, market_code, y) ==
    SumSeq(Column(SelectSeq(df, LAMBDA r : r.partner = market_code /\ r.year = y),
                  "trade_value"))

\* C3: calculate_growth_rate returns a non-null cagr exactly when the first
\* year differs from the last year and the summed value of the first year
\* is > 0; in every other case cagr is None
C3_CagrDefinedOnlyWhen ==
    Returned("calculate_growth_rate")
    => LET ys == DistinctYears(args.df_exports, args.market_code)
       IN  (ret.cagr # NULL)
           <=> /\ ys # {}
               /\ SetMin(ys) # SetMax(ys)
               /\ ValueOfYear(args.df_exports, args.market_code, SetMin(ys)) > 0

C3_Witness ==
    /\ Returned("calculate_growth_rate")
    /\ Cardinality(DistinctYears(args.df_exports, args.market_code)) = 2
    /\ ValueOfYear(args.df_exports, args.market_code,
                   SetMin(DistinctYears(args.df_exports, args.market_code))) = 0
    /\ ret.cagr = NULL
    /\ ret.absolute_growth # NULL

ScenarioGrowth ==
    [df_exports  |-> <<[year |-> 2023, partner |-> "356", trade_value |-> 100],
                       [year |-> 2024, partner |-> "356", trade_value |-> 150]>>,
     market_code |-> "356"]

\* C13: for a market whose records cover exactly two distinct consecutive
\* years with a first-year value > 0, yoy_growth, cagr and growth_percentage
\* are all (last - first) / first * 100 and absolute_growth is last - first
\* (100 in 2023 and 150 in 2024 give 50, 50, 50 and 50)
C13_TwoConsecutiveYears ==
    LET ys    == DistinctYears(args.df_exports, args.market_code)
        first == ValueOfYear(args.df_exports, args.market_code, SetMin(ys))
        last  == ValueOfYear(args.df_exports, args.market_code, SetMax(ys))
    IN  (Returned("calculate_growth_rate")
            /\ Cardinality(ys) = 2
            /\ SetMax(ys) = SetMin(ys) + 1
            /\ first > 0)
        => /\ ret.yoy_growth = Rat((last - first) * 100, first)
           /\ ret.cagr = Rat((last - first) * 100, first)
           /\ ret.growth_percentage = Rat((last - first) * 100, first)
           /\ ret.absolute_growth = Num(last - first)
           /\ args = ScenarioGrowth
              => /\ ret.yoy_growth = Num(50)
                 /\ ret.cagr = Num(50)
                 /\ ret.growth_percentage = Num(50)
                 /\ ret.absolute_growth = Num(50)

C13_Witness ==
    /\ Returned("calculate_growth_rate")
    /\ args = ScenarioGrowth
    /\ ret.yoy_growth = Num(50)
    /\ ret.cagr = Num(50)

\* C20: with at least 2 distinct years, yoy_growth is None exactly when the
\* summed value of the previous year is <= 0, growth_percentage is None
\* exactly when the summed value of the first year is <= 0 (neither is 0 for
\* that reason), and absolute_growth is last - first
C20_RatioNullIffOwnDenominator ==
    LET ys    == SortedSeq(DistinctYears(args.df_exports, args.market_code))
        first == ValueOfYear(args.df_exports, args.market_code, ys[1])
        prev  == ValueOfYear(args.df_exports, args.market_code, ys[Len(ys) - 1])
        last  == ValueOfYear(args.df_exports, args.market_code, ys[Len(ys)])
    IN  (Returned("calculate_growth_rate") /\ Len(ys) >= 2)
        => /\ ret.yoy_growth = NULL <=> prev <= 0
           /\ prev > 0 => ret.yoy_growth = Rat((last - prev) * 100, prev)
           /\ ret.growth_percentage = NULL <=> first <= 0
           /\ first > 0 => ret.growth_percentage = Rat((last - first) * 100, first)
           /\ ret.absolute_growth = Num(last - first)

\* three years, the previous one with value 0 and the first one positive
C20_Witness ==
    /\ Returned("calculate_growth_rate")
    /\ Cardinality(DistinctYears(args.df_exports, args.market_code)) = 3
    /\ ret.yoy_growth = NULL
    /\ ret.growth_percentage # NULL
    /\ ret.absolute_growth # NULL

-----------------------------------------------------------------------------
(* Share & Rank Calculator *)

RowsOfMarket(df, c, market_code) == SelectSeq(df, LAMBDA r : r[c] = market_code)

\* the (market, year) a call of calculate_market_share selects, <<>> when the
\* year is left to the data and one of the two tables has no row of the market
SelectedYear(a) ==
    LET afg == RowsOfMarket(a.afg_exports, "partner", a.market_code)
        tot == RowsOfMarket(a.total_imports, "partner_code", a.market_code)
    IN  IF a.year # NULL THEN a.year
        ELSE IF afg = <<>> \/ tot = <<>> THEN NULL
        ELSE LET x == SetMax(Range(Column(afg, "year")))
                 y == SetMax(Range(Column(tot, "year")))
             IN  <<IF x < y THEN x ELSE y>>

SubjectValue(a, y) ==
    SumSeq(Column(SelectSeq(a.afg_exports,
                            LAMBDA r : r.partner = a.market_code /\ r.year = y),
                  "trade_value"))

MarketTotal(a, y) ==
    SumSeq(Column(SelectSeq(a.total_imports,
                            LAMBDA r : r.partner_code = a.market_code /\ r.year = y),
                  "total_import_value"))

\* C4: calculate_market_share returns None, never 0, whenever the market's
\* total import value for the selected (market, year) is <= 0 (subject value
\* 20 against a market total of 0 gives None)
C4_ShareNullWhenTotalNotPositive ==
    (Returned("calculate_market_share")
        /\ SelectedYear(args) # NULL
        /\ MarketTotal(args, SelectedYear(args)[1]) <= 0)
    => ret = NULL

\* C5: a defined result of calculate_market_share is the subject's summed
\* trade_value over the market's summed total_import_value of the same
\* (market, year), times 100, and is >= 0
C5_ShareIsRatioOfSameYearSums ==
    (Returned("calculate_market_share")
        /\ SelectedYear(args) # NULL
        /\ ret # NULL)
    => LET y == SelectedYear(args)[1]
       IN  /\ MarketTotal(args, y) > 0
           /\ ret = Rat(SubjectValue(args, y) * 100, MarketTotal(args, y))
           /\ RLeq(Num(0), ret)

\* C6: calculate_market_share returns 0 when the market has a positive total
\* and the subject has no row for the market, and None (not 0) when the
\* market has no total-import row at all
C6_AbsentSubjectVersusAbsentMarket ==
    Returned("calculate_market_share")
    => /\ (/\ RowsOfMarket(args.afg_exports, "partner", args.market_code) = <<>>
           /\ \E i \in 1..Len(args.total_imports) :
                 /\ args.total_imports[i].partner_code = args.market_code
                 /\ args.total_imports[i].total_import_value > 0)
          => ret = Num(0)
       /\ RowsOfMarket(args.total_imports, "partner_code", args.market_code) = <<>>
          => ret = NULL

\* the subject's value a call of get_market_rank compares with
SubjectRankValue(a) ==
    LET afg == RowsOfMarket(a.afg_exports, "partner", a.market_code)
    IN  IF afg = <<>> THEN 0
        ELSE LET y == IF a.year # NULL THEN a.year[1]
                      ELSE SetMax(Range(Column(afg, "year")))
             IN  SumSeq(Column(SelectSeq(afg, LAMBDA r : r.year = y), "trade_value"))

\* the positions of the subject in the ranked supplier list
ListedRanks(ranked) ==
    {ranked[i].rank : i \in {j \in 1..Len(ranked) :
                                ranked[j].supplier = AFGHANISTAN_CODE}}

\* C14: when the subject is in the supplier list of the (market, year),
\* get_market_rank returns the subject's own listed rank, also when other
\* suppliers tie with it; when it is not listed and its value is > 0, the
\* result is 1 + the number of suppliers with a strictly greater value
C14_ListedRankElseInsertion ==
    (Returned("get_market_rank") /\ ret.market_suppliers # <<>>)
    => LET v == SubjectRankValue(args)
           t == ret.market_suppliers
       IN  IF ListedRanks(t) # {}
           THEN ret.afg_rank = <<SetMin(ListedRanks(t))>>
           ELSE v > 0
                => ret.afg_rank =
                      <<1 + Cardinality({i \in 1..Len(t) : t[i].import_value > v})>>

\* the subject is listed with its own value, behind a supplier that ties with
\* it, and the result is the rank of that supplier
C14_TieReached ==
    /\ Returned("get_market_rank")
    /\ Len(ret.market_suppliers) = 2
    /\ ret.market_suppliers[1].supplier # AFGHANISTAN_CODE
    /\ ret.market_suppliers[2].supplier = AFGHANISTAN_CODE
    /\ ret.market_suppliers[1].import_value = SubjectRankValue(args)
    /\ ret.market_suppliers[2].import_value = SubjectRankValue(args)
    /\ SubjectRankValue(args) > 0
    /\ ret.afg_rank = <<1>>

\* C19: when the subject's value for the (market, year) is 0 or absent and
\* the subject is not in the supplier list, get_market_rank returns None,
\* whatever the suppliers' values are (0 included)
C19_RankNullWithoutSubject ==
    (Returned("get_market_rank")
        /\ SubjectRankValue(args) = 0
        /\ ListedRanks(ret.market_suppliers) = {})
    => ret.afg_rank = NULL

-----------------------------------------------------------------------------
(* Price Comparator *)

FiveLabels(pct) ==
    IF RLess(pct, Num(-10)) THEN "Highly Competitive"
    ELSE IF RLess(pct, Num(0)) THEN "Competitive"
    ELSE IF RLess(pct, Num(10)) THEN "Average"
    ELSE IF RLess(pct, Num(20)) THEN "Above Market"
    ELSE "Premium"

\* C7: the market-scoped classification maps every defined deviation to one
\* of five labels: < -10 Highly Competitive, [-10, 0) Competitive,
\* [0, 10) Average, [10, 20) Above Market, >= 20 Premium
C7_FiveLabelClassification ==
    (Returned("compare_to_competitors_in_market")
        /\ ret.afg_vs_market_pct # NULL)
    => ret.competitiveness = FiveLabels(ret.afg_vs_market_pct)

ScenarioPrices ==
    [afg_unit_price  |-> <<15, 2>>,
     competitor_data |-> <<[trade_value |-> 10, trade_quantity |-> <<1>>],
                           [trade_value |-> 12, trade_quantity |-> <<1>>],
                           [trade_value |-> 8, trade_quantity |-> <<1>>]>>,
     market_code     |-> "356"]

\* C8: with a reference price > 0 the deviation is (subject - reference) /
\* reference * 100 (supplier unit prices 10, 12, 8 and subject price 7.5 give
\* -25 and Highly Competitive); with a reference price <= 0 the deviation and
\* the label are both None
C8_DeviationFromReference ==
    (Returned("compare_to_competitors_in_market")
        /\ ret.market_avg_price # NULL)
    => LET ref == ret.market_avg_price
           sub == args.afg_unit_price
       IN  /\ ref[1] > 0
              => ret.afg_vs_market_pct =
                    Rat((sub[1] * ref[2] - ref[1] * sub[2]) * 100, ref[1] * sub[2])
           /\ ref[1] <= 0
              => /\ ret.afg_vs_market_pct = NULL
                 /\ ret.competitiveness = NoLabel
           /\ args = ScenarioPrices
              => /\ ref = Num(10)
                 /\ ret.afg_vs_market_pct = Num(-25)
                 /\ ret.competitiveness = "Highly Competitive"

C8_Witness ==
    /\ Returned("compare_to_competitors_in_market")
    /\ args = ScenarioPrices
    /\ ret.afg_vs_market_pct = Num(-25)

\* a reference price of 0 is reached as well
C8_ZeroReferenceReached ==
    /\ Returned("compare_to_competitors_in_market")
    /\ ret.market_avg_price = Num(0)
    /\ ret.afg_vs_market_pct = NULL

-----------------------------------------------------------------------------
(* Data Normalizer *)

IsAlternateOnly(rows) ==
    rows # <<>> /\ DOMAIN rows[1] = {"period", "cifvalue", "reporterISO"}

\* the same cells under the preferred field names
preferred_named(rows) ==
    [i \in 1..Len(rows) |->
        [refYear |-> rows[i].period, primaryValue |-> rows[i].cifvalue,
         reporterCode |-> rows[i].reporterISO]]

canonical(df) ==
    [i \in 1..Len(df) |->
        [year |-> df[i].year, partner |-> df[i].partner,
         trade_value |-> df[i].trade_value]]

\* C11: rows that carry only period, cifvalue and reporterISO are normalized
\* to the same (year, partner, trade_value) records as rows that carry the
\* same values as refYear, primaryValue and reporterCode
C11_AlternateFieldsSameRecord ==
    (Returned("fetch_afghanistan_exports_batch")
        /\ IsAlternateOnly(args.response.rows))
    => canonical(ret) =
          canonical(fetch_afghanistan_exports_batch(
              [outcome |-> args.response.outcome,
               rows    |-> preferred_named(args.response.rows)]))

\* the raw rows whose year and value both coerce to a number
CoercibleRows(rows) ==
    SelectSeq(rows, LAMBDA r :
        LET y == IF "refYear" \in DOMAIN r THEN r.refYear ELSE r.period
            v == IF "primaryValue" \in DOMAIN r THEN r.primaryValue ELSE r.cifvalue
        IN  to_numeric(y) # <<>> /\ to_numeric(v) # <<>>)

\* C12: the output of the normalizer has one row per raw row whose year and
\* trade_value both coerce to a number, and no row whose year or trade_value
\* is NaN
C12_CoercionFailuresDropped ==
    Returned("fetch_afghanistan_exports_batch")
    => /\ \A i \in 1..Len(ret) : ret[i].year # <<>> /\ ret[i].trade_value # <<>>
       /\ Len(ret) = Len(CoercibleRows(args.response.rows))

-----------------------------------------------------------------------------
(* Unit price *)

\* the indices of the rows of the selected partner (every partner when none
\* is given) and year (the latest year of those rows when none is given)
SelectedPriceRows(a) ==
    LET ofp == {i \in 1..Len(a.df_exports) :
                   a.partner # NULL => a.df_exports[i].partner = a.partner[1]}
    IN  IF a.year # NULL
        THEN {i \in ofp : a.df_exports[i].year = a.year[1]}
        ELSE {i \in ofp : \A j \in ofp : a.df_exports[j].year <= a.df_exports[i].year}

RECURSIVE SumOver(_, _, _)
SumOver(df, c, I) ==
    IF I = {} THEN 0
    ELSE LET i == CHOOSE x \in I : TRUE
         IN  df[i][c] + SumOver(df, c, I \ {i})

\* C15: calculate_unit_price returns sum(trade_value) / sum(trade_quantity)
\* over exactly the rows of the selected partner and year, and None when
\* that quantity sum is <= 0, the quantity column is absent or no row matches
C15_UnitPriceIsRatioOfSums ==
    Returned("calculate_unit_price")
    => LET I == SelectedPriceRows(args)
       IN  IF I = {} THEN ret = NULL
           ELSE IF "trade_quantity" \notin DOMAIN args.df_exports[1] THEN ret = NULL
           ELSE IF SumOver(args.df_exports, "trade_quantity", I) <= 0 THEN ret = NULL
           ELSE ret = Rat(SumOver(args.df_exports, "trade_value", I),
                          SumOver(args.df_exports, "trade_quantity", I))

\* one of two rows with a quantity is outside the selected year
C15_Witness ==
    /\ Returned("calculate_unit_price")
    /\ Len(args.df_exports) = 2
    /\ Cardinality(SelectedPriceRows(args)) = 1
    /\ \A i \in 1..2 : /\ args.df_exports[i].partner = "356"
                         /\ args.df_exports[i].trade_value = 30
    /\ HasColumn(args.df_exports, "trade_quantity")
    /\ \A i \in 1..2 : args.df_exports[i].trade_quantity = 4
    /\ ret = Rat(30, 4)

-----------------------------------------------------------------------------
(* Ranks and shares within one year *)

\* the year a call with an optional year argument selects in a table
YearSelected(df, year) ==
    IF year # NULL THEN year[1] ELSE SetMax(Range(Column(df, "year")))

\* the positions a value can take among the values V sorted descending
IsPositionOf(k, v, V) ==
    /\ Cardinality({i \in DOMAIN V : V[i] > v}) < k
    /\ k <= Cardinality({i \in DOMAIN V : V[i] >= v})

\* the World totals of the markets that have a World row in year y
WorldTotalsOfYear(df, y) ==
    LET ms == {df[i].reporterCode : i \in {j \in 1..Len(df) :
                                              IsWorldRow(df[j]) /\ df[j].year = y}}
        sq == SortedSeq({k \in 1..Len(CodeOrder) : CodeOrder[k] \in ms})
    IN  [k \in 1..Len(sq) |-> WorldValue(df, CodeOrder[sq[k]], y)]

RSumSeq(f) == RSumTo(f, Len(f))

\* C27: get_competitor_shares gives each supplier its trade_value over the
\* summed trade_value of all supplier rows of the market-year (summed before
\* the truncation to top_n) times 100: with a total > 0 the returned shares
\* add up to at most 100, and to 100 when no row is truncated
C27_SharesOfWholeMarketYear ==
    (Returned("get_competitor_shares") /\ ret # <<>>)
    => LET y == YearSelected(args.all_suppliers, args.year)
           t == SelectSeq(args.all_suppliers, LAMBDA r : r.year = y)
           total == SumSeq(Column(t, "trade_value"))
       IN  total > 0
           => /\ \A i \in 1..Len(ret) :
                    ret[i].market_share = Rat(ret[i].trade_value * 100, total)
              /\ RLeq(RSumSeq(Column(ret, "market_share")), Num(100))
              /\ Len(ret) = Len(t)
                 => RSumSeq(Column(ret, "market_share")) = Num(100)

\* two suppliers of the year, one returned, with a share below 100
C27_Witness ==
    /\ Returned("get_competitor_shares")
    /\ args.top_n = 1
    /\ Len(ret) = 1
    /\ ret[1].market_share = Num(75)

-----------------------------------------------------------------------------
(* Duplicate records of one year and partner *)

\* no two rows of the table agree on all the key columns
UniqueKeys(df, keys) ==
    \A i, j \in 1..Len(df) : (\A k \in keys : df[i][k] = df[j][k]) => i = j

\* C22: records that share (year, partner) are summed by each aggregation:
\* analyze_product's table by year and partner has one row per pair with the
\* sum of the pair's values, calculate_growth_rate's first and last values
\* are the sums of the market's records of those years, and
\* identify_top_markets has one row per partner with the sum of the partner's
\* records of the selected year
C22_DuplicatesAreSummed ==
    /\ Returned("aggregate")
       => /\ UniqueKeys(ret, {"year", "partner"})
          /\ \A i \in 1..Len(args.all_exports) :
                \E k \in 1..Len(ret) :
                   /\ <<ret[k].year>> = args.all_exports[i].year
                   /\ py_str(ret[k].partner) = args.all_exports[i].partner
          /\ \A k \in 1..Len(ret) :
                LET g == SelectSeq(args.all_exports,
                                   LAMBDA r : /\ r.year = <<ret[k].year>>
                                              /\ r.partner = py_str(ret[k].partner))
                IN  /\ ret[k].trade_value =
                           SumSeq([i \in 1..Len(g) |-> g[i].trade_value[1]])
                    /\ ret[k].trade_quantity =
                           SumSeq([i \in 1..Len(g) |->
                                      IF g[i].trade_quantity = <<>> THEN 0
                                      ELSE g[i].trade_quantity[1]])
    /\ (Returned("calculate_growth_rate") /\ ret # NoGrowth)
       => /\ ret.first_value =
                ValueOfYear(args.df_exports, args.market_code, ret.first_year)
          /\ ret.last_value =
                ValueOfYear(args.df_exports, args.market_code, ret.last_year)
    /\ Returned("identify_top_markets")
       => /\ UniqueKeys(ret, {"partner"})
          /\ \A k \in 1..Len(ret) :
                ret[k].trade_value =
                   ValueOfYear(args.df_exports, ret[k].partner,
                               YearSelected(args.df_exports, args.year))

\* two records of one year and partner come out as one row with their sum
C22_Witness ==
    /\ Returned("identify_top_markets")
    /\ Len(args.df_exports) = 2
    /\ args.df_exports[1].year = args.df_exports[2].year
    /\ args.df_exports[1].partner = args.df_exports[2].partner
    /\ args.df_exports[1].trade_value = 10
    /\ args.df_exports[2].trade_value = 20
    /\ Len(ret) = 1
    /\ ret[1].trade_value = 30

-----------------------------------------------------------------------------
(* Data Normalizer: the order of column resolution *)

\* C23: the normaliser resolves each column by a fixed priority: a raw table
\* with refYear gives year from refYear whether or not it has period, one
\* with primaryValue gives trade_value from primaryValue whether or not it
\* has cifvalue, one with reporterCode values gives partner from
\* reporterCode whether or not it has reporterISO; period, cifvalue and
\* reporterISO are read only in a table without the preferred field
C23_PreferredFieldFirst ==
    (Returned("fetch_afghanistan_exports_batch") /\ args.response.rows # <<>>)
    => LET df == args.response.rows
       IN  \A i \in 1..Len(df) :
             /\ "refYear" \in DOMAIN df[i]
                => ret[i].year = to_numeric(df[i].refYear)
             /\ "primaryValue" \in DOMAIN df[i]
                => ret[i].trade_value = to_numeric(df[i].primaryValue)
             /\ "reporterCode" \in DOMAIN df[i]
                => ret[i].partner = object_astype_str(df[i].reporterCode)
             /\ ({"refYear", "period"} \cap DOMAIN df[i] = {"period"})
                => ret[i].year = to_numeric(df[i].period)
             /\ ({"primaryValue", "cifvalue"} \cap DOMAIN df[i] = {"cifvalue"})
                => ret[i].trade_value = to_numeric(df[i].cifvalue)
             /\ ({"reporterCode", "reporterISO"} \cap DOMAIN df[i] = {"reporterISO"})
                => ret[i].partner = df[i].reporterISO

\* a row with both fields of each column is normalised from the preferred ones
C23_Witness ==
    /\ Returned("fetch_afghanistan_exports_batch")
    /\ Len(ret) = 1
    /\ args.response.rows[1] \in BothRawRow
    /\ args.response.rows[1].period = py_int(2023)
    /\ args.response.rows[1].cifvalue = py_int(25)
    /\ ret[1].year = <<2024>>
    /\ ret[1].trade_value = <<20>>
    /\ ret[1].partner = py_str("356")

-----------------------------------------------------------------------------
(* Data Normalizer: the quantity column *)

\* C24: the normaliser takes trade_quantity from qty when the raw table has
\* it and from netWgt otherwise: the records of a raw table with netWgt and
\* without qty have a trade_quantity equal to the net weight
C24_QuantityElseNetWeight ==
    (Returned("fetch_afghanistan_exports_batch") /\ args.response.rows # <<>>)
    => LET df == args.response.rows
       IN  \A i \in 1..Len(df) :
             /\ "qty" \in DOMAIN df[i]
                => /\ "trade_quantity" \in DOMAIN ret[i]
                   /\ ret[i].trade_quantity = to_numeric(df[i].qty)
             /\ ("netWgt" \in DOMAIN df[i] /\ "qty" \notin DOMAIN df[i])
                => /\ "trade_quantity" \in DOMAIN ret[i]
                   /\ ret[i].trade_quantity = to_numeric(df[i].netWgt)

-----------------------------------------------------------------------------
(* The two comparison modes *)

GlobalLabels == {"Equal", "Above", "Below"}

\* C25: compare_to_global_average labels the absolute difference subject
\* price - global average price: 'Equal' when |difference| < 0.01, 'Above'
\* when difference >= 0.01, 'Below' when difference <= -0.01, and no label
\* without a difference; it never gives a label of the market-scoped
\* comparison, and compare_to_competitors_in_market never gives 'Equal',
\* 'Above' or 'Below'
C25_GlobalAverageLabels ==
    /\ Returned("compare_to_global_average")
       => /\ ret.competitiveness \in GlobalLabels \cup {NoLabel}
          /\ ret.price_difference = NULL <=> ret.competitiveness = NoLabel
          /\ ret.price_difference # NULL
             => LET d == ret.price_difference
                IN  /\ d = RSub(args.afg_unit_price, ret.global_avg_price)
                    /\ (RLess(d, Rat(1, 100)) /\ RLess(Rat(-1, 100), d))
                       => ret.competitiveness = "Equal"
                    /\ RLeq(Rat(1, 100), d) => ret.competitiveness = "Above"
                    /\ RLeq(d, Rat(-1, 100)) => ret.competitiveness = "Below"
    /\ Returned("compare_to_competitors_in_market")
       => ret.competitiveness \notin GlobalLabels

\* a difference of 0.005 is 'Equal'
C25_Witness ==
    /\ Returned("compare_to_global_average")
    /\ args.afg_unit_price = <<2001, 200>>
    /\ ret.global_avg_price = Num(10)
    /\ ret.price_difference = <<1, 200>>
    /\ ret.competitiveness = "Equal"

\* a difference of exactly 0.01 is 'Above' and one of -0.01 is 'Below'
C25_ThresholdReached ==
    /\ Returned("compare_to_global_average")
    /\ \/ ret.price_difference = <<1, 100>> /\ ret.competitiveness = "Above"
       \/ ret.price_difference = <<-1, 100>> /\ ret.competitiveness = "Below"

-----------------------------------------------------------------------------
(* Year-over-year growth with missing years *)

\* C29: the 'previous' value of yoy_growth is the total of the latest year
\* with records before the last year, whether or not it is the calendar
\* year before it; with records of exactly two years, consecutive or not,
\* yoy_growth equals growth_percentage
C29_PreviousIsLatestPrecedingYear ==
    (Returned("calculate_growth_rate") /\ ret # NoGrowth)
    => LET ys   == DistinctYears(args.df_exports, args.market_code)
           p    == SetMax({y \in ys : y < ret.last_year})
           prev == ValueOfYear(args.df_exports, args.market_code, p)
       IN  /\ ret.last_year = SetMax(ys)
           /\ ret.yoy_growth = IF prev > 0
                               THEN Rat((ret.last_value - prev) * 100, prev)
                               ELSE NULL
           /\ Cardinality(ys) = 2 => ret.yoy_growth = ret.growth_percentage

\* records of 2021 and 2024 only: yoy_growth is the growth from 2021
C29_Witness ==
    /\ Returned("calculate_growth_rate")
    /\ DistinctYears(args.df_exports, args.market_code) = {2021, 2024}
    /\ ret.first_value = 100
    /\ ret.last_value = 150
    /\ ret.yoy_growth = Num(50)
    /\ ret.growth_percentage = Num(50)

-----------------------------------------------------------------------------
(* The unified query *)

\* C28: in one run of analyze_product the unified query is issued at most
\* once, after the export query and only for non-empty exports; the
\* extraction steps, which get the fetched table, issue no query, whether
\* the table is empty or not
C28_UnifiedQueryAtMostOnce ==
    /\ unified_queries <= 1
    /\ unified_queries = 1
       => /\ exports_response # <<>>
          /\ ~IsEmptyResponse(exports_response)
    /\ pc \in {"identify", "markets"} => unified_queries = 1
    /\ pc = "fetch_unified" => unified_queries = 0

\* the extractions have run on the fetched table and a market is analysed
C28_Witness ==
    /\ pc = "markets"
    /\ market_analyses # <<>>
    /\ unified_queries = 1

\* a run that ended without markets issued one query
C28_NoMarketsReached ==
    /\ all_results # <<>>
    /\ all_results[Len(all_results)].status = "no_markets"
    /\ pc = "fetch_exports"
    /\ unified_queries = 1

-----------------------------------------------------------------------------
(* The year of a market entry *)

\* the latest year with a World row in the unified table
RankingYear(unified_data) ==
    SetMax(Range(Column(world_rows(unified_data), "year")))

\* C30: the figures of a market entry refer to one year: the year whose
\* World totals rank and size the markets, the latest year present in the
\* global import data, is max(YEARS), the year of export_value and
\* market_share, so that global_market_size is the market's World total of
\* max(YEARS)
C30_EntryFiguresOfOneYear ==
    \A i \in 1..Len(market_analyses) :
       /\ RankingYear(unified_global_data) = latest_year
       /\ market_analyses[i].global_market_size =
             WorldValue(unified_global_data, market_analyses[i].market_code,
                        latest_year)

-----------------------------------------------------------------------------
(* Independence of the products *)

\* result is an outcome of analyze_product for the product, given the
\* response to its export query and its unified table
IsAnalysisOf(result, product, response, unified_data) ==
    LET all_exports == fetch_afghanistan_exports_batch(response)
        df          == aggregate(all_exports)
    IN  IF all_exports = <<>> THEN result = no_data(product)
        ELSE \E markets \in identify_top_global_import_markets("080211", YEARS,
                                 TOP_N_MARKETS, unified_data) :
                IF markets = <<>> THEN result = no_markets(product)
                ELSE LET codes == Column(markets, "partner")
                         batch_market_imports ==
                             fetch_market_imports_batch(codes, "080211", YEARS,
                                                        unified_data)
                         batch_supplier_data ==
                             fetch_market_imports_by_partner_batch(codes, "080211",
                                                                   YEARS, unified_data)
                     IN  /\ result.status = "success"
                         /\ result = success(product, df, result.markets)
                         /\ Len(result.markets) = Len(markets)
                         /\ \A i \in 1..Len(markets) :
                               result.markets[i] \in
                                  market_analysis(markets[i], df, batch_market_imports,
                                                  batch_supplier_data)

\* C26: the result of a product depends on that product's own fetched tables
\* only: whatever main has processed before, each result appended to
\* all_results is an outcome of analyze_product for the product, the response
\* to its export query and its unified table, so that the order of the
\* products changes the order of the results and nothing else
C26_ResultFromOwnTables ==
    [][all_results' # all_results
       => IsAnalysisOf(all_results'[Len(all_results')], PRODUCTS[idx],
                       exports_response', unified_global_data)]_vars

\* the second product succeeds with a market after the first one did
C26_Witness ==
    /\ Len(all_results) = 2
    /\ all_results[1].status = "success"
    /\ all_results[2].status = "success"
    /\ all_results[1].markets # <<>>
    /\ all_results[2].markets # <<>>
    /\ all_results[1].markets # all_results[2].markets

====
